---- MODULE Spec2Model ----
(***************************************************************************)
(* Model of the slot-game outcome engine of                                *)
(* src/controllers/sweetBonanza.controller.js: the variance tracker, the   *)
(* outcome selector, the grid scorer, the grid synthesizer, the cascade    *)
(* orchestrator, the spin engine (generateReelResult) and the part of      *)
(* playGame that calls it.                                                 *)
(*                                                                         *)
(* Numbers.  The source computes in floating point; the model computes     *)
(* the same expressions exactly, in scaled integers:                       *)
(*   - a value of Math.random() is k / RandomDen, k \in 0..RandomDen-1;    *)
(*   - a probability of RTP_CONFIG is p / ProbDen;                         *)
(*   - a win multiplier (targetMultiplier) is m / MultDen;                 *)
(*   - a paytable multiplier is q / 100;                                   *)
(*   - an amount of money is a number of hundredths of a cent              *)
(*     (CentUnits units make one cent, 100 cents one currency unit).       *)
(***************************************************************************)
EXTENDS Integers, Sequences, FiniteSets, TLC

VARIABLES
    varianceState,   \* the module-level varianceState object (lines 122-129)
    winProbability,  \* RTP_CONFIG.winProbability (lines 24-30), a mutable object
    rng,             \* the stream Math.random() reads: [pat, pos]
    spin,            \* the activation of generateReelResult
    synth,           \* the activation of generateReelsForTarget
    snapshot,        \* the last value returned by a diagnostic read of the
                     \* adjusted probabilities, with the tracker it was read in
    reqs,            \* the playGame requests in flight
    running,         \* the request whose synchronous code is executing, or 0
    log,             \* per completed spin: its base outcome and its cascade count
    db               \* the database: users, transactions, balance histories

vars == <<varianceState, winProbability, rng, spin, synth, snapshot, reqs, running, log, db>>

---------------------------------------------------------------------------
(* Units *)

RandomDen == 2 * 1000
ProbDen == 2 * 1000
MultDen == 8 * 1000
CentUnits == 10 * 10

Abs(x) == IF x < 0 THEN 0 - x ELSE x
Min(a, b) == IF a <= b THEN a ELSE b
Max(a, b) == IF a >= b THEN a ELSE b

\* an array with the elements f[1], ..., f[n], each computed once
Array(f) == SubSeq(f, 1, Cardinality(DOMAIN f))

\* an amount passed on with its fraction of a cent
KeepFraction(x) == x

\* Math.floor(x * 100) / 100 on an amount x >= 0
FloorCents(x) == (x \div CentUnits) * CentUnits

\* bestDifference before any candidate
Infinity == 0 - 1

---------------------------------------------------------------------------
(* RTP_CONFIG *)

Categories == <<"loss", "smallWin", "mediumWin", "largeWin", "jackpot">>

\* winProbability: 0.65, 0.28, 0.06, 0.009, 0.001, in 1/ProbDen
BaseWinProbability ==
    [loss |-> 1300, smallWin |-> 560, mediumWin |-> 120, largeWin |-> 18, jackpot |-> 2]

\* winRanges: min and max of each winning category, in 1/MultDen
winRanges ==
    [smallWin  |-> [min |-> 4000,   max |-> 16000],
     mediumWin |-> [min |-> 16000,  max |-> 80000],
     largeWin  |-> [min |-> 80000,  max |-> 400000],
     jackpot   |-> [min |-> 400000, max |-> 1600000]]

\* winRanges.*.avg, in 1/MultDen
winAverages ==
    [smallWin |-> 10000, mediumWin |-> 48000, largeWin |-> 240000, jackpot |-> 1000000]

varianceEnabled == TRUE
maxDryStreak == 15
varianceWindow == 100
resetThreshold == 500

---------------------------------------------------------------------------
(* Math.random(): the next value of the stream, which is cyclic *)

NextRandom(g) == g.pat[g.pos + 1]
Advance(g) == [g EXCEPT !.pos = (g.pos + 1) % Len(g.pat)]
AdvanceBy(g, n) == [g EXCEPT !.pos = (g.pos + n) % Len(g.pat)]
\* the value of the n-th call from now, n >= 1
RandomAt(g, n) == g.pat[((g.pos + n - 1) % Len(g.pat)) + 1]

---------------------------------------------------------------------------
(* Symbols, SYMBOL_WEIGHTS and getWeightedSymbol *)

symbolKeys ==
    <<"grape", "orange", "lemon", "melon", "banana", "apple", "strawberry", "star", "gem">>
Symbols == {symbolKeys[i] : i \in 1..Len(symbolKeys)}

\* SYMBOL_WEIGHTS doubled (40, 30, 20, 15, 10, 5, 3, 1.5, 0.5), in key order
SYMBOL_WEIGHTS == <<80, 60, 40, 30, 20, 10, 6, 3, 1>>

\* the sum of the elements of s, by halves
RECURSIVE SumSeq(_)
SumSeq(s) ==
    IF Len(s) = 0 THEN 0
    ELSE IF Len(s) = 1 THEN s[1]
    ELSE SumSeq(SubSeq(s, 1, Len(s) \div 2)) + SumSeq(SubSeq(s, Len(s) \div 2 + 1, Len(s)))

\* random = Math.random() * totalWeight; walk the entries subtracting each
\* weight, return the first symbol at which random <= 0; '🍇' if none.
\* rem is the doubled, RandomDen-scaled value of `random`.
RECURSIVE WalkWeights(_, _)
WalkWeights(i, rem) ==
    IF i > Len(symbolKeys) THEN "grape"
    ELSE IF rem - SYMBOL_WEIGHTS[i] * RandomDen <= 0 THEN symbolKeys[i]
    ELSE WalkWeights(i + 1, rem - SYMBOL_WEIGHTS[i] * RandomDen)

getWeightedSymbol(r) == WalkWeights(1, r * SumSeq(SYMBOL_WEIGHTS))

---------------------------------------------------------------------------
(* Grids: reels[col][row], 6 columns of 5 rows, indexed from 1 here *)

Cols == 6
Rows == 5
MinCluster == 8

\* Array(6).fill(null).map(() => Array(5).fill(null).map(() => getWeightedSymbol()))
\* the 30 draws are made column by column
RandomReels(g) ==
    Array([c \in 1..Cols |->
              Array([r \in 1..Rows |-> getWeightedSymbol(RandomAt(g, (c - 1) * Rows + r))])])

\* the cells in the order the scans visit them
CellOrder ==
    Array([i \in 1..(Cols * Rows) |-> <<((i - 1) \div Rows) + 1, ((i - 1) % Rows) + 1>>])
SymbolAt(reels, i) == reels[CellOrder[i][1]][CellOrder[i][2]]

\* a position as the source reports it: { reel: col, position: row }, from 0
Position(i) == [reel |-> CellOrder[i][1] - 1, position |-> CellOrder[i][2] - 1]

CellIndices == 1..(Cols * Rows)

\* the elements of a set of cell indices, in increasing order
InScanOrder(I) ==
    Array([k \in 1..Cardinality(I) |->
              CHOOSE i \in I : Cardinality({j \in I : j < i}) = k - 1])

\* the positions of the cells that hold a symbol of S, in scan order
PositionsOf(reels, S) ==
    LET order == InScanOrder({i \in CellIndices : SymbolAt(reels, i) \in S})
    IN  Array([k \in 1..Len(order) |-> Position(order[k])])

CountOf(reels, S) == Cardinality({i \in CellIndices : SymbolAt(reels, i) \in S})

\* the keys of symbolCounts, in insertion order: by first appearance in the scan
SeenOrder(reels) ==
    LET First(s) == CHOOSE i \in CellIndices :
                        /\ SymbolAt(reels, i) = s
                        /\ \A j \in 1..(i - 1) : SymbolAt(reels, j) # s
        firsts == InScanOrder({First(SymbolAt(reels, i)) : i \in CellIndices})
    IN  Array([k \in 1..Len(firsts) |-> SymbolAt(reels, firsts[k])])

RECURSIVE FilterWinning(_, _)
FilterWinning(reels, keys) ==
    IF keys = <<>> THEN <<>>
    ELSE (IF CountOf(reels, {Head(keys)}) >= MinCluster
          THEN <<[symbol |-> Head(keys),
                  count |-> CountOf(reels, {Head(keys)}),
                  positions |-> PositionsOf(reels, {Head(keys)})]>>
          ELSE <<>>)
         \o FilterWinning(reels, Tail(keys))

countMatchingSymbols(reels) == FilterWinning(reels, SeenOrder(reels))

\* the paytable, in hundredths: the multipliers for 8-9, 10-11 and 12+ symbols
paytable ==
    [grape      |-> <<25, 75, 200>>,
     orange     |-> <<40, 90, 400>>,
     lemon      |-> <<50, 100, 500>>,
     melon      |-> <<80, 120, 800>>,
     banana     |-> <<100, 150, 1000>>,
     apple      |-> <<150, 200, 1200>>,
     strawberry |-> <<200, 500, 1500>>,
     star       |-> <<250, 1000, 2500>>,
     gem        |-> <<1000, 2500, 5000>>]

getSymbolMultiplier(symbol, count) ==
    LET symbolPaytable == IF symbol \in DOMAIN paytable THEN paytable[symbol]
                          ELSE <<25, 75, 200>>
    IN  IF count >= 12 THEN symbolPaytable[3]
        ELSE IF count >= 10 THEN symbolPaytable[2]
        ELSE IF count >= 8 THEN symbolPaytable[1]
        ELSE 0

ScatterSymbols == {"star", "gem"}

\* the scatter tier reached by scatterCount, in hundredths
ScatterMultiplier(scatterCount) ==
    IF scatterCount >= 6 THEN 10000
    ELSE IF scatterCount >= 5 THEN 500
    ELSE IF scatterCount >= 4 THEN 300
    ELSE IF scatterCount >= 3 THEN 50
    ELSE 0

RECURSIVE ClusterWins(_, _)
ClusterWins(winningSymbols, betAmount) ==
    IF winningSymbols = <<>> THEN [totalWin |-> 0, positions |-> <<>>]
    ELSE LET w == Head(winningSymbols)
             rest == ClusterWins(Tail(winningSymbols), betAmount)
         IN  [totalWin |-> (betAmount * getSymbolMultiplier(w.symbol, w.count)) \div 100
                           + rest.totalWin,
              positions |-> w.positions \o rest.positions]

\* totalWin when a scatter symbol that forms a cluster is paid as a cluster
\* only, without the scatter tier of lines 456-468
totalWinExclusive(reels, betAmount) ==
    ClusterWins(countMatchingSymbols(reels), betAmount).totalWin
    + (IF \E s \in ScatterSymbols : CountOf(reels, {s}) >= MinCluster THEN 0
       ELSE (betAmount * ScatterMultiplier(CountOf(reels, ScatterSymbols))) \div 100)

\* totalWin before it is floored, in money units like betAmount
totalWin(reels, betAmount) ==
    ClusterWins(countMatchingSymbols(reels), betAmount).totalWin
    + (betAmount * ScatterMultiplier(CountOf(reels, ScatterSymbols))) \div 100

calculateWinFromReels(reels, betAmount) ==
    LET clusters == ClusterWins(countMatchingSymbols(reels), betAmount)
        scatterCount == CountOf(reels, ScatterSymbols)
        scatterPositions == PositionsOf(reels, ScatterSymbols)
    IN  [winAmount |-> FloorCents(totalWin(reels, betAmount)),
         winningPositions |-> clusters.positions
                              \o (IF scatterCount >= 3 THEN scatterPositions ELSE <<>>)]

---------------------------------------------------------------------------
(* Variance tracking *)

InitVarianceState ==
    [recentOutcomes |-> <<>>, recentMultipliers |-> <<>>,
     dryStreakCount |-> 0, winStreakCount |-> 0,
     totalSpins |-> 0, varianceAccumulator |-> 0]

\* sum over the winning categories of probability * average multiplier,
\* in 1/MultDen (the loss term is probability * 0)
calculateExpectedRTP(wp) ==
    (wp.smallWin * winAverages.smallWin + wp.mediumWin * winAverages.mediumWin
     + wp.largeWin * winAverages.largeWin + wp.jackpot * winAverages.jackpot) \div ProbDen

\* a window that drops the new value, not the oldest, when it is full
PushWindowKeepOldest(window, x) ==
    IF Len(window) + 1 > varianceWindow THEN window ELSE Append(window, x)

\* push, then shift when the window is longer than varianceWindow
PushWindow(window, x) ==
    IF Len(window) + 1 > varianceWindow THEN Tail(Append(window, x)) ELSE Append(window, x)

\* an update whose periodic reset of lines 166-169 clears the streaks too
updateVarianceStateClearing(vs, wp, wasWin, multiplier) ==
    LET spins == vs.totalSpins + 1
        acc == vs.varianceAccumulator + (multiplier - calculateExpectedRTP(wp))
        reset == spins >= resetThreshold
    IN  [recentOutcomes |-> PushWindow(vs.recentOutcomes, IF wasWin THEN 1 ELSE 0),
         recentMultipliers |-> PushWindow(vs.recentMultipliers, multiplier),
         dryStreakCount |-> IF wasWin \/ reset THEN 0 ELSE vs.dryStreakCount + 1,
         winStreakCount |-> IF wasWin /\ ~reset THEN vs.winStreakCount + 1 ELSE 0,
         totalSpins |-> IF reset THEN 0 ELSE spins,
         varianceAccumulator |-> IF reset THEN 0 ELSE acc]

\* targetRTP: 0.96, in 1/MultDen
targetRTP == (96 * MultDen) \div 100

\* the object validateRTPConfig returns; isValid allows 0.05
validateRTPConfig(wp) ==
    LET expectedRTP == calculateExpectedRTP(wp)
    IN  [expectedRTP |-> expectedRTP,
         targetRTP |-> targetRTP,
         isValid |-> Abs(expectedRTP - targetRTP) <= (5 * MultDen) \div 100]

\* an update that resets with `>` in place of line 166's `>=`
updateVarianceStateLate(vs, wp, wasWin, multiplier) ==
    LET spins == vs.totalSpins + 1
        acc == vs.varianceAccumulator + (multiplier - calculateExpectedRTP(wp))
    IN  [recentOutcomes |-> PushWindow(vs.recentOutcomes, IF wasWin THEN 1 ELSE 0),
         recentMultipliers |-> PushWindow(vs.recentMultipliers, multiplier),
         dryStreakCount |-> IF wasWin THEN 0 ELSE vs.dryStreakCount + 1,
         winStreakCount |-> IF wasWin THEN vs.winStreakCount + 1 ELSE 0,
         totalSpins |-> IF spins > resetThreshold THEN 0 ELSE spins,
         varianceAccumulator |-> IF spins > resetThreshold THEN 0 ELSE acc]

updateVarianceState(vs, wp, wasWin, multiplier) ==
    IF ~varianceEnabled THEN vs
    ELSE LET spins == vs.totalSpins + 1
             acc == vs.varianceAccumulator + (multiplier - calculateExpectedRTP(wp))
         IN  [recentOutcomes |-> PushWindow(vs.recentOutcomes, IF wasWin THEN 1 ELSE 0),
              recentMultipliers |-> PushWindow(vs.recentMultipliers, multiplier),
              dryStreakCount |-> IF wasWin THEN 0 ELSE vs.dryStreakCount + 1,
              winStreakCount |-> IF wasWin THEN vs.winStreakCount + 1 ELSE 0,
              totalSpins |-> IF spins >= resetThreshold THEN 0 ELSE spins,
              varianceAccumulator |-> IF spins >= resetThreshold THEN 0 ELSE acc]

\* A probability as the source computes it from the window: a fraction.
Frac(n, d) == [num |-> n, den |-> d]
FracLess(a, b) == a.num * b.den < b.num * a.den
FracLeq(a, b) == a.num * b.den <= b.num * a.den
FracAdd(a, b) ==
    IF a.den = b.den THEN Frac(a.num + b.num, a.den)
    ELSE Frac(a.num * b.den + b.num * a.den, a.den * b.den)

\* the length of the window, or 1 when it is empty: the adjusted
\* probabilities before normalization are whole numbers of 1/(ProbDen * N)
WindowScale(vs) == IF Len(vs.recentOutcomes) > 0 THEN Len(vs.recentOutcomes) ELSE 1

\* recentWinRate, in 1/(ProbDen * N): wins / length, or 0.35 for an empty window
recentWinRate(vs) ==
    IF Len(vs.recentOutcomes) > 0 THEN ProbDen * SumSeq(vs.recentOutcomes)
    ELSE (35 * ProbDen) \div 100

\* (recentWinRate - expectedWinRate) * clusterStrength, clusterStrength = 0.3
varianceAdjustment(vs, wp) ==
    ((recentWinRate(vs) - (ProbDen - wp.loss) * WindowScale(vs)) * 3) \div 10

\* dryStreakBonus (0.15) * (1 - (dryStreakCount - maxDryStreak) / 10), or 0
dryStreakBonus(vs) ==
    IF vs.dryStreakCount >= maxDryStreak
    THEN (((15 * ProbDen) \div 100) * WindowScale(vs)
          * (10 - (vs.dryStreakCount - maxDryStreak))) \div 10
    ELSE 0

\* the object `adjusted` before normalization, in 1/(ProbDen * N)
AdjustedBeforeNormalize(vs, wp) ==
    LET N == WindowScale(vs)
        adj == varianceAdjustment(vs, wp)
        bonus == dryStreakBonus(vs)
        P(x) == (x * ProbDen * N) \div 1000    \* the literal x / 1000
        copy == [k \in DOMAIN wp |-> wp[k] * N]
    IN  IF vs.dryStreakCount >= maxDryStreak /\ bonus > 0
        THEN [copy EXCEPT
                 !.loss = Max(P(500), wp.loss * N - adj - bonus),
                 !.largeWin = Min(P(50), wp.largeWin * N + (bonus * 3) \div 10),
                 !.jackpot = Min(P(5), wp.jackpot * N + bonus \div 10)]
        ELSE IF adj < 0
        THEN [copy EXCEPT !.loss = Min(P(750), wp.loss * N - adj \div 2)]
        ELSE [copy EXCEPT !.loss = Max(P(550), wp.loss * N - adj \div 2)]

RECURSIVE SumKeys(_, _)
SumKeys(f, keys) == IF keys = {} THEN 0
                    ELSE LET k == CHOOSE x \in keys : TRUE
                         IN  f[k] + SumKeys(f, keys \ {k})

\* Normalize with the last category left out of the total
NormalizeShortTotal(adjusted) ==
    LET total == SumKeys(adjusted, DOMAIN adjusted \ {"jackpot"})
    IN  [k \in DOMAIN adjusted |-> Frac(adjusted[k], total)]

\* total = Object.values(adjusted).reduce(...); adjusted[key] = adjusted[key] / total
Normalize(adjusted) ==
    LET total == SumKeys(adjusted, DOMAIN adjusted)
    IN  [k \in DOMAIN adjusted |-> Frac(adjusted[k], total)]

\* ConfigAfterRead when `adjusted` is the configuration object itself and not
\* a copy of it: the adjusted weights are written into RTP_CONFIG
ConfigAfterReadAliased(wp, adjusted) ==
    [k \in DOMAIN wp |->
        (adjusted[k] * ProbDen) \div SumKeys(adjusted, DOMAIN adjusted)]

\* RTP_CONFIG.winProbability after a call: `adjusted` is a copy
\* ({ ...winProbability }), so the writes to it leave the configuration alone
ConfigAfterRead(wp, adjusted) == wp

\* the value returned
getVarianceAdjustedProbabilities(vs, wp) ==
    IF ~varianceEnabled THEN [k \in DOMAIN wp |-> Frac(wp[k], ProbDen)]
    ELSE Normalize(AdjustedBeforeNormalize(vs, wp))

---------------------------------------------------------------------------
(* Outcome selection *)

\* the multiplier without line 377's `multiplier *= cascadeMultiplier`
DrawMultiplierFlat(category, r, isCascade) ==
    winRanges[category].min
        + r * ((winRanges[category].max - winRanges[category].min) \div RandomDen)

\* winRanges[c].min + Math.random() * (max - min), times cascadeMultiplier
\* (1.5) for a cascade
DrawMultiplier(category, r, isCascade) ==
    LET range == winRanges[category]
        \* every range is a whole number of RandomDen multiplier units
        multiplier == range.min + r * ((range.max - range.min) \div RandomDen)
    IN  IF isCascade THEN (multiplier * 3) \div 2 ELSE multiplier

\* the walk with `random <= cumulativeProb` in place of line 367's `<`
RECURSIVE WalkCategoriesInclusive(_, _, _, _)
WalkCategoriesInclusive(p, random, i, cumulativeProb) ==
    IF i = Len(Categories) THEN Categories[i]
    ELSE LET cum == FracAdd(cumulativeProb, p[Categories[i]])
         IN  IF FracLeq(Frac(random, RandomDen), cum) THEN Categories[i]
             ELSE WalkCategoriesInclusive(p, random, i + 1, cum)

\* the first category, in the order of Categories, whose cumulative
\* probability exceeds random; jackpot when none of the first four does
RECURSIVE WalkCategories(_, _, _, _)
WalkCategories(p, random, i, cumulativeProb) ==
    IF i = Len(Categories) THEN Categories[i]
    ELSE LET cum == FracAdd(cumulativeProb, p[Categories[i]])
         IN  IF FracLess(Frac(random, RandomDen), cum) THEN Categories[i]
             ELSE WalkCategories(p, random, i + 1, cum)

\* the outcome, and the stream after the one or two draws
determineWinOutcome(isCascade, vs, wp, g) ==
    LET random == NextRandom(g)
        p == getVarianceAdjustedProbabilities(vs, wp)
        category == WalkCategories(p, random, 1, Frac(0, p.loss.den))
    IN  IF category = "loss"
        THEN [category |-> "loss", targetMultiplier |-> 0, isCascade |-> FALSE,
              rng |-> Advance(g)]
        ELSE [category |-> category,
              targetMultiplier |-> DrawMultiplier(category, NextRandom(Advance(g)), isCascade),
              isCascade |-> isCascade,
              rng |-> AdvanceBy(g, 2)]

\* cascadeChance (0.25), times 1.5 from 10x, times 1.2 from 2x, in 1/RandomDen
cascadeProbability(baseMultiplier) ==
    LET cascadeChance == RandomDen \div 4
    IN  IF baseMultiplier >= 10 * MultDen THEN (cascadeChance * 15) \div 10
        ELSE IF baseMultiplier >= 2 * MultDen THEN (cascadeChance * 12) \div 10
        ELSE cascadeChance

\* Math.random() < cascadeProbability; one draw
shouldTriggerCascade(baseMultiplier, g) ==
    varianceEnabled /\ NextRandom(g) < cascadeProbability(baseMultiplier)

---------------------------------------------------------------------------
(* Grid synthesis: generateLosingReels *)

LosingMaxAttempts == 50
CellMaxAttempts == 30
MaxPerSymbol == 7

ReelsOfCells(cells) ==
    Array([c \in 1..Cols |-> Array([r \in 1..Rows |-> cells[(c - 1) * Rows + r]])])

\* the while loop of one cell: draw until a symbol with fewer than 7
\* occurrences comes, at most 30 times.  accepted is the set of the draws,
\* among the next 30, that the loop would accept; the loop stops at the
\* first of them.  symbol is <<>> when all 30 draws were rejected.
DrawCell(counts, g) ==
    LET accepted == {j \in 1..CellMaxAttempts :
                        counts[getWeightedSymbol(RandomAt(g, j))] < MaxPerSymbol}
        first == CHOOSE j \in accepted : \A k \in accepted : j <= k
    IN  IF accepted = {}
        THEN [symbol |-> <<>>, rng |-> AdvanceBy(g, CellMaxAttempts),
              attempts |-> CellMaxAttempts]
        ELSE [symbol |-> <<getWeightedSymbol(RandomAt(g, first))>>,
              rng |-> AdvanceBy(g, first), attempts |-> first - 1]

\* symbolKeys.sort((a, b) => count[a] - count[b]): in place and stable
SortByCount(keys, counts) ==
    LET Before(i, j) == \/ counts[keys[i]] < counts[keys[j]]
                        \/ counts[keys[i]] = counts[keys[j]] /\ i < j
        Rank(i) == 1 + Cardinality({j \in 1..Len(keys) : Before(j, i)})
    IN  Array([k \in 1..Len(keys) |-> keys[CHOOSE i \in 1..Len(keys) : Rank(i) = k]])

\* the symbol of a cell whose 30 draws were all rejected: sortedSymbols[0]
LeastUsed(sorted) == sorted[1]

\* the two nested for loops over the cells, from cell i on
RECURSIVE FillCells(_, _)
FillCells(i, st) ==
    IF i > Cols * Rows THEN st
    ELSE LET d == DrawCell(st.counts, st.rng)
             found == d.symbol # <<>>
             sorted == SortByCount(st.keys, st.counts)
             symbol == IF found THEN d.symbol[1] ELSE LeastUsed(sorted)
         IN  FillCells(i + 1,
                 [cells |-> Append(st.cells, symbol),
                  counts |-> IF symbol \in DOMAIN st.counts
                             THEN [st.counts EXCEPT ![symbol] = @ + 1] ELSE st.counts,
                  keys |-> IF found THEN st.keys ELSE sorted,
                  rng |-> d.rng,
                  rejections |-> Max(st.rejections, d.attempts)])

\* one iteration of the for loop over the attempts: the filled grid, the
\* stream after it, the largest number of rejected draws of a cell
LosingGrid(g) ==
    LET st == FillCells(1, [cells |-> <<>>, counts |-> [s \in Symbols |-> 0],
                            keys |-> symbolKeys, rng |-> g, rejections |-> 0])
    IN  [reels |-> ReelsOfCells(st.cells), rng |-> st.rng, rejections |-> st.rejections]

\* calculateWinFromReels(reels, 1)
OneUnit == 100 * CentUnits

---------------------------------------------------------------------------
(* Grid synthesis: generateReelsForTarget, one step per iteration of its    *)
(* loops.  synth.pc is idle, losing (in generateLosingReels), trials (in    *)
(* the search for a winning grid) or ret (returned, the value in ret).      *)

IdleSynth ==
    [pc |-> "idle", betAmount |-> 0, targetMultiplier |-> 0,
     attempt |-> 0, attempts |-> 0, exactMatches |-> 0,
     bestMatch |-> <<>>, bestDifference |-> Infinity,
     rejections |-> 0, ret |-> <<>>]

maxAttempts(targetMultiplier) ==
    IF targetMultiplier < 10 * MultDen THEN 300
    ELSE IF targetMultiplier < 50 * MultDen THEN 500 ELSE 800

\* the tolerances, in twentieths: 0.25, 0.35, 0.45, 0.60
tolerance(targetMultiplier) ==
    IF targetMultiplier < 2 * MultDen THEN 5
    ELSE IF targetMultiplier < 10 * MultDen THEN 7
    ELSE IF targetMultiplier < 50 * MultDen THEN 9 ELSE 12

\* 0.10, 0.15
quickAcceptTolerance(targetMultiplier) ==
    IF targetMultiplier < 10 * MultDen THEN 2 ELSE 3

\* 0.40, 0.50, 0.70
acceptTolerance(targetMultiplier) ==
    IF targetMultiplier < 10 * MultDen THEN 8
    ELSE IF targetMultiplier < 50 * MultDen THEN 10 ELSE 14

Cents(x) == x \div CentUnits

\* |winAmount / betAmount - targetMultiplier|, in 1/(MultDen * cents of the bet)
Difference(winAmount, betAmount, targetMultiplier) ==
    Abs(Cents(winAmount) * MultDen - targetMultiplier * Cents(betAmount))

\* difference / targetMultiplier <= tol / 20; a bet is a multiple of 10 cents
WithinTolerance(difference, betAmount, targetMultiplier, tol) ==
    2 * difference <= tol * targetMultiplier * (Cents(betAmount) \div 10)

StartSynth(betAmount, targetMultiplier) ==
    [IdleSynth EXCEPT !.pc = IF targetMultiplier = 0 THEN "losing" ELSE "trials",
                      !.betAmount = betAmount,
                      !.targetMultiplier = targetMultiplier]

\* a return statement that hands back nothing
ReturnUndefined(value) == [synth EXCEPT !.pc = "ret", !.ret = <<>>]

Return(value) == [synth EXCEPT !.pc = "ret", !.ret = <<value>>]

\* a result for a target of 0 that reports what `verification` found
LossResultVerified(reels) ==
    [reels |-> reels,
     winAmount |-> calculateWinFromReels(reels, OneUnit).winAmount,
     winningPositions |-> calculateWinFromReels(reels, OneUnit).winningPositions]

\* what generateReelsForTarget returns for a target of 0 (lines 541-548)
LossResult(reels) == [reels |-> reels, winAmount |-> 0, winningPositions |-> <<>>]

WinResult(reels, result) ==
    [reels |-> reels, winAmount |-> result.winAmount,
     winningPositions |-> result.winningPositions]

LosingAttempt ==
    /\ synth.pc = "losing"
    /\ synth.attempt < LosingMaxAttempts
    /\ \E grid \in {LosingGrid(rng)} :
         \E testWin \in {calculateWinFromReels(grid.reels, OneUnit)} :
           /\ rng' = grid.rng
           /\ synth' = IF testWin.winAmount = 0
                       THEN [Return(LossResult(grid.reels)) EXCEPT
                                !.rejections = grid.rejections]
                       ELSE [synth EXCEPT !.attempt = @ + 1,
                                          !.rejections = grid.rejections]
    /\ UNCHANGED <<db, varianceState, winProbability, spin, snapshot, reqs, running, log>>

LosingFallback ==
    /\ synth.pc = "losing"
    /\ synth.attempt >= LosingMaxAttempts
    /\ rng' = AdvanceBy(rng, Cols * Rows)
    /\ \E reels \in {RandomReels(rng)} : synth' = Return(LossResult(reels))
    /\ UNCHANGED <<db, varianceState, winProbability, spin, snapshot, reqs, running, log>>

WinTrial ==
    /\ synth.pc = "trials"
    /\ synth.attempts < maxAttempts(synth.targetMultiplier)
    /\ rng' = AdvanceBy(rng, Cols * Rows)
    /\ \E reels \in {RandomReels(rng)} :
         \E result \in {calculateWinFromReels(reels, synth.betAmount)} :
           LET T == synth.targetMultiplier
               difference == Difference(result.winAmount, synth.betAmount, T)
               within == WithinTolerance(difference, synth.betAmount, T, tolerance(T))
               quick == WithinTolerance(difference, synth.betAmount, T,
                                        quickAcceptTolerance(T))
               better == \/ synth.bestDifference = Infinity
                         \/ difference < synth.bestDifference
           IN  synth' =
                 IF result.winAmount = 0
                 THEN [synth EXCEPT !.attempts = @ + 1]
                 ELSE IF within /\ quick
                 THEN [Return(WinResult(reels, result)) EXCEPT !.exactMatches = @ + 1]
                 ELSE [synth EXCEPT
                          !.attempts = @ + 1,
                          !.exactMatches = IF within THEN @ + 1 ELSE @,
                          !.bestDifference = IF better THEN difference ELSE @,
                          !.bestMatch = IF better THEN <<WinResult(reels, result)>> ELSE @]
    /\ UNCHANGED <<db, varianceState, winProbability, spin, snapshot, reqs, running, log>>

WinFinish ==
    /\ synth.pc = "trials"
    /\ synth.attempts >= maxAttempts(synth.targetMultiplier)
    /\ LET T == synth.targetMultiplier
           accept == /\ synth.bestMatch # <<>>
                     /\ WithinTolerance(synth.bestDifference, synth.betAmount, T,
                                        acceptTolerance(T))
       IN  IF accept
           THEN /\ synth' = Return(synth.bestMatch[1])
                /\ rng' = rng
           ELSE /\ rng' = AdvanceBy(rng, Cols * Rows)
                /\ \E reels \in {RandomReels(rng)} :
                     \E result \in {calculateWinFromReels(reels, synth.betAmount)} :
                       synth' = IF T > 0 /\ result.winAmount > 0
                                THEN Return(WinResult(reels, result))
                                ELSE IF synth.bestMatch # <<>>
                                THEN Return(synth.bestMatch[1])
                                ELSE Return(WinResult(reels, result))
    /\ UNCHANGED <<db, varianceState, winProbability, spin, snapshot, reqs, running, log>>

SynthStep == LosingAttempt \/ LosingFallback \/ WinTrial \/ WinFinish

---------------------------------------------------------------------------
(* The state after the module is loaded *)

IdleSpin ==
    [pc |-> "idle", betAmount |-> 0, outcome |-> <<>>, result |-> <<>>,
     finalWinAmount |-> 0, cascadeResults |-> <<>>, cascadeOutcomes |-> <<>>,
     totalCascadeWins |-> 0, ret |-> <<>>]

NoSnapshot == [probs |-> <<>>, reads |-> 0]

\* the documents the requests find: an active user with 3.00, a pending
\* user with 1.50 and a suspended user with 5.00; no transaction or
\* balance history yet
InitDb ==
    [users |-> <<[status |-> "active", balance |-> 300 * CentUnits, totalWinnings |-> 0],
                 [status |-> "pending", balance |-> 150 * CentUnits, totalWinnings |-> 0],
                 [status |-> "suspended", balance |-> 500 * CentUnits, totalWinnings |-> 0]>>,
     transactions |-> <<>>,
     history |-> <<>>]

InitModule ==
    /\ varianceState = InitVarianceState
    /\ winProbability = BaseWinProbability
    /\ rng = [pat |-> <<0>>, pos |-> 0]
    /\ spin = IdleSpin
    /\ synth = IdleSynth
    /\ snapshot = NoSnapshot
    /\ reqs = <<>>
    /\ running = 0
    /\ log = <<>>
    /\ db = InitDb

---------------------------------------------------------------------------
(* A spin: generateReelResult.  spin.pc is idle, base (the base grid is     *)
(* being synthesized), cascade (a cascade grid is being synthesized) or     *)
(* ret (returned, the value in ret).  The code between two syntheses runs   *)
(* in one step.                                                             *)

\* the stream after shouldTriggerCascade
AfterCascadeCheck(g) == IF varianceEnabled THEN Advance(g) ELSE g

\* cascadeResults.length < 2: room for one more cascade
CascadeSlotLeft(cascadeResults) == Len(cascadeResults) < 2

\* a tracker that is fed the cascade outcomes as well
TrackOutcomeAndCascades(vs, wp, outcome, cascadeOutcomes) ==
    LET base == updateVarianceState(vs, wp, outcome.targetMultiplier > 0,
                                    outcome.targetMultiplier)
    IN  IF cascadeOutcomes = <<>> THEN base
        ELSE updateVarianceState(base, wp, cascadeOutcomes[1].targetMultiplier > 0,
                                 cascadeOutcomes[1].targetMultiplier)

\* const wasWin = outcome.targetMultiplier > 0; updateVarianceState(wasWin, ...)
TrackOutcome(vs, wp, outcome, cascadeOutcomes) ==
    updateVarianceState(vs, wp, outcome.targetMultiplier > 0, outcome.targetMultiplier)

\* { reels, winAmount, winningPositions, rtpCategory, isCascade }
CascadeEntry(cascadeResult, cascadeOutcome) ==
    [reels |-> cascadeResult.reels,
     winAmount |-> FloorCents(cascadeResult.winAmount),
     winningPositions |-> cascadeResult.winningPositions,
     rtpCategory |-> cascadeOutcome.category,
     isCascade |-> TRUE]

\* a return whose winAmount leaves out lines 679 and 695, the cascade payouts
SpinReturnBaseOnly(sp) ==
    [reels |-> sp.result[1].reels,
     winAmount |-> FloorCents(sp.result[1].winAmount),
     winningPositions |-> sp.result[1].winningPositions,
     rtpCategory |-> sp.outcome[1].category,
     isCascade |-> FALSE,
     cascades |-> sp.cascadeResults,
     baseWin |-> FloorCents(sp.result[1].winAmount),
     cascadeWins |-> IF Len(sp.cascadeResults) > 0
                     THEN FloorCents(sp.totalCascadeWins) ELSE 0]

\* the object generateReelResult returns; cascades is <<>> for undefined
SpinReturn(sp) ==
    [reels |-> sp.result[1].reels,
     winAmount |-> FloorCents(sp.finalWinAmount),
     winningPositions |-> sp.result[1].winningPositions,
     rtpCategory |-> sp.outcome[1].category,
     isCascade |-> FALSE,
     cascades |-> sp.cascadeResults,
     baseWin |-> FloorCents(sp.result[1].winAmount),
     cascadeWins |-> IF Len(sp.cascadeResults) > 0
                     THEN FloorCents(sp.totalCascadeWins) ELSE 0]

\* lines 699-712: the tracker is updated and the spin returns
Finish(sp, g) ==
    /\ varianceState' = TrackOutcome(varianceState, winProbability, sp.outcome[1],
                                     sp.cascadeOutcomes)
    /\ spin' = [sp EXCEPT !.pc = "ret", !.ret = <<SpinReturn(sp)>>]
    /\ log' = Append(log, [wasWin |-> sp.outcome[1].targetMultiplier > 0,
                           multiplier |-> sp.outcome[1].targetMultiplier,
                           cascades |-> Len(sp.cascadeResults)])
    /\ synth' = IdleSynth
    /\ rng' = g

\* determineWinOutcome(true), then generateReelsForTarget is entered
StartCascade(sp, g) ==
    \E cascadeOutcome \in {determineWinOutcome(TRUE, varianceState, winProbability, g)} :
        /\ spin' = [sp EXCEPT !.pc = "cascade",
                              !.cascadeOutcomes = Append(@, cascadeOutcome)]
        /\ synth' = StartSynth(sp.betAmount, cascadeOutcome.targetMultiplier)
        /\ rng' = cascadeOutcome.rng
        /\ UNCHANGED <<db, varianceState, log>>

\* lines 657-665: the base grid is back
AfterBase ==
    /\ spin.pc = "base"
    /\ synth.pc = "ret"
    /\ LET result == synth.ret[1]
           T == spin.outcome[1].targetMultiplier
           sp == [spin EXCEPT !.result = <<result>>,
                              !.finalWinAmount = FloorCents(result.winAmount)]
       IN  IF T > 0
           THEN IF shouldTriggerCascade(T, rng)
                THEN StartCascade(sp, AfterCascadeCheck(rng))
                ELSE Finish(sp, AfterCascadeCheck(rng))
           ELSE Finish(sp, rng)
    /\ UNCHANGED <<db, winProbability, snapshot, reqs, running>>

\* a cascade chain written as a loop: any cascade may start another
AfterCascadeChained ==
    /\ spin.pc = "cascade"
    /\ synth.pc = "ret"
    /\ LET cascadeResult == synth.ret[1]
           cascadeOutcome == spin.cascadeOutcomes[Len(spin.cascadeOutcomes)]
           sp == [spin EXCEPT
                     !.cascadeResults = Append(@, CascadeEntry(cascadeResult, cascadeOutcome)),
                     !.totalCascadeWins = @ + cascadeResult.winAmount,
                     !.finalWinAmount = @ + cascadeResult.winAmount]
       IN  IF shouldTriggerCascade(cascadeOutcome.targetMultiplier, rng)
           THEN StartCascade(sp, AfterCascadeCheck(rng))
           ELSE Finish(sp, AfterCascadeCheck(rng))
    /\ UNCHANGED <<db, winProbability, snapshot, reqs, running>>

\* lines 668-682 and 684-697: a cascade grid is back; only the first
\* cascade's block holds the check for another one
AfterCascade ==
    /\ spin.pc = "cascade"
    /\ synth.pc = "ret"
    /\ LET cascadeResult == synth.ret[1]
           cascadeOutcome == spin.cascadeOutcomes[Len(spin.cascadeOutcomes)]
           sp == [spin EXCEPT
                     !.cascadeResults = Append(@, CascadeEntry(cascadeResult, cascadeOutcome)),
                     !.totalCascadeWins = @ + cascadeResult.winAmount,
                     !.finalWinAmount = @ + cascadeResult.winAmount]
       IN  IF Len(spin.cascadeResults) = 0
           THEN IF CascadeSlotLeft(sp.cascadeResults)
                THEN IF shouldTriggerCascade(cascadeOutcome.targetMultiplier, rng)
                     THEN StartCascade(sp, AfterCascadeCheck(rng))
                     ELSE Finish(sp, AfterCascadeCheck(rng))
                ELSE Finish(sp, rng)
           ELSE Finish(sp, rng)
    /\ UNCHANGED <<db, winProbability, snapshot, reqs, running>>

\* lines 651-657: the base outcome is drawn and generateReelsForTarget entered
StartSpin(betAmount, g) ==
    \E outcome \in {determineWinOutcome(FALSE, varianceState, winProbability, g)} :
        /\ spin' = [IdleSpin EXCEPT !.pc = "base", !.betAmount = betAmount,
                                    !.outcome = <<outcome>>]
        /\ synth' = StartSynth(betAmount, outcome.targetMultiplier)
        /\ rng' = outcome.rng

SpinStep == SynthStep \/ AfterBase \/ AfterCascade

---------------------------------------------------------------------------
(* The variance tracker on its own: the base outcome of a spin is drawn     *)
(* (line 653) and recorded (lines 700-701); the adjusted probabilities are  *)
(* read for diagnostics between spins.                                      *)

MaxRecords == 26
MaxWins == 1
MaxReads == 2

\* the draws of a spin's base outcome: a loss (0), a draw that is a loss or
\* a small win depending on the window (0.66), a small win (0.75, then
\* 0.75), a jackpot (0.9995, then 0)
TrackerSeeds == {<<0>>, <<1320, 0>>, <<1500, 1500>>, <<1999, 0>>}

RecordBaseOutcome ==
    \E seed \in TrackerSeeds :
        LET outcome == determineWinOutcome(FALSE, varianceState, winProbability,
                                           [pat |-> seed, pos |-> 0])
            wasWin == outcome.targetMultiplier > 0
        IN  /\ varianceState.totalSpins < MaxRecords
            /\ wasWin => SumSeq(varianceState.recentOutcomes) < MaxWins
            /\ varianceState' = updateVarianceState(varianceState, winProbability,
                                                    wasWin, outcome.targetMultiplier)
            /\ rng' = outcome.rng
            /\ snapshot' = NoSnapshot
            /\ UNCHANGED <<db, winProbability, spin, synth, reqs, running, log>>

ReadProbabilities ==
    /\ snapshot.reads < MaxReads
    /\ LET p == getVarianceAdjustedProbabilities(varianceState, winProbability)
       IN  /\ snapshot' = [probs |-> <<p>>, reads |-> snapshot.reads + 1]
           /\ winProbability' =
                  ConfigAfterRead(winProbability,
                                  AdjustedBeforeNormalize(varianceState, winProbability))
    /\ UNCHANGED <<db, varianceState, rng, spin, synth, reqs, running, log>>

NextTracker == RecordBaseOutcome \/ ReadProbabilities

SpecTracker == InitModule /\ [][NextTracker]_vars

\* the distribution the next outcome is drawn from
Adjusted == getVarianceAdjustedProbabilities(varianceState, winProbability)
BaseProbability(k) == Frac(BaseWinProbability[k], ProbDen)

---------------------------------------------------------------------------
(* The streams of draws.  A stream is cyclic; a draw is one of a few values *)
(* of Math.random(), chosen to reach every category and several symbols:    *)
(*    0       (0.0)     loss,      grape, triggers a cascade               *)
(*    1320    (0.66)    loss or small win by the window, lemon             *)
(*    1500    (0.75)    small win, melon                                   *)
(*    1900    (0.95)    medium win, apple                                  *)
(*    1999    (0.9995)  jackpot,   gem                                     *)

MaxSeedLen == 1

\* the draws of the short streams: grape, melon, gem
SeedVals == {0, 1500, 1999}
ShortSeeds == UNION {[1..k -> SeedVals] : k \in 1..MaxSeedLen}

Run(v, n) == [i \in 1..n |-> v]

\* 30 draws that fill a grid with four fruits 7 times each and 2 gems
QuietGrid == Run(1500, 7) \o Run(1900, 7) \o Run(1999, 2) \o Run(0, 7) \o Run(1320, 7)
\* 30 draws that fill a grid with 3 gems and four fruits below 8 each
ScatterGrid == Run(1999, 3) \o Run(0, 7) \o Run(1320, 7) \o Run(1500, 7) \o Run(1900, 6)

LongSeeds == {<<0, 1320, 1500, 1900>>, QuietGrid, ScatterGrid \o QuietGrid}

Seeds == ShortSeeds \cup LongSeeds

\* bets of 1.00 and 1.10
Bets == {100 * CentUnits, 110 * CentUnits}

---------------------------------------------------------------------------
(* The grid synthesizer on its own: generateReelsForTarget is called with   *)
(* a bet, a target multiplier (0, 0.5, 6, 15, 125) and a stream of draws.   *)

Targets == {0, 4000, 48000, 120000, 1000000}

CallSynth ==
    /\ synth.pc \in {"idle", "ret"}
    /\ \E betAmount \in Bets, targetMultiplier \in Targets, seed \in Seeds :
          /\ rng' = [pat |-> seed, pos |-> 0]
          /\ synth' = StartSynth(betAmount, targetMultiplier)
    /\ UNCHANGED <<db, varianceState, winProbability, spin, snapshot, reqs, running, log>>

NextSynth == CallSynth \/ SynthStep

SpecSynth == InitModule /\ [][NextSynth]_vars

---------------------------------------------------------------------------
(* Spins one after another: generateReelResult is called with a bet and a   *)
(* stream of draws, runs to its return, and is called again.                *)

MaxSpins == 2

\* 8 grapes, 8 lemons, 7 melons, 7 apples: pays 0.25 + 0.5 times the bet
PayingGrid == Run(0, 8) \o Run(1320, 8) \o Run(1500, 7) \o Run(1900, 7)
\* 30 draws that fill a losing grid; the 30 from the second on fill a grid
\* with 3 gems
EitherGrid ==
    <<0>> \o Run(1999, 2) \o Run(0, 6) \o Run(1320, 7) \o Run(1500, 7) \o Run(1900, 7)
          \o <<1999>>

\* a loss
LossSeed == <<0>> \o QuietGrid
\* a small win of 0.5x and no cascade
WinSeed == <<1500, 0>> \o ScatterGrid \o <<1999>>
\* a small win, a cascade win of 0.75x, no second cascade
CascadeSeed == <<1500, 0>> \o ScatterGrid \o <<0, 1500, 0>> \o PayingGrid \o <<1999>>
\* a small win, a losing cascade, a second cascade that wins 0.75x; the
\* draws after it would start and lose a third cascade
TwoCascadeSeed ==
    <<1500, 0>> \o ScatterGrid \o <<0, 0>> \o QuietGrid \o <<0, 1500, 0>> \o PayingGrid
                \o <<0, 0>> \o QuietGrid \o <<1999>>
\* a small win on a fresh tracker, a loss after a losing spin
ThresholdSeed == <<1320>> \o EitherGrid \o <<1999>>

SpinSeeds ==
    {<<0>>, <<1500>>, LossSeed, WinSeed, CascadeSeed, TwoCascadeSeed, ThresholdSeed}

CallSpin ==
    /\ spin.pc \in {"idle", "ret"}
    /\ Len(log) < MaxSpins
    /\ \E betAmount \in Bets, seed \in SpinSeeds :
          StartSpin(betAmount, [pat |-> seed, pos |-> 0])
    /\ UNCHANGED <<db, varianceState, winProbability, snapshot, reqs, running, log>>

NextSpin == CallSpin \/ SpinStep

SpecSpin == InitModule /\ [][NextSpin]_vars

---------------------------------------------------------------------------
(* A long history of the tracker: the base outcome of spin after spin is   *)
(* drawn from one stream (line 653) and recorded (lines 700-701), past the  *)
(* length of the window and past the periodic reset.  log is the history.   *)

MaxHistory == 505

\* the draws of the base outcomes: losses only; small wins only; a loss and a
\* jackpot in turn; 3 losses and a medium win; 120 losses and 2 small wins;
\* a small win and then losses to the end
HistorySeeds ==
    {<<0>>, <<1500>>, <<0, 1999, 0>>, <<0, 0, 0, 1900, 1000>>,
     Run(0, 120) \o Run(1500, 4), <<1500, 0>> \o Run(0, MaxHistory)}

Record(g) ==
    LET outcome == determineWinOutcome(FALSE, varianceState, winProbability, g)
        wasWin == outcome.targetMultiplier > 0
    IN  /\ varianceState' = updateVarianceState(varianceState, winProbability,
                                                wasWin, outcome.targetMultiplier)
        /\ log' = Append(log, [wasWin |-> wasWin,
                               multiplier |-> outcome.targetMultiplier])
        /\ rng' = outcome.rng
        /\ UNCHANGED <<db, winProbability, spin, synth, snapshot, reqs, running>>

FirstRecord ==
    /\ log = <<>>
    /\ \E seed \in HistorySeeds : Record([pat |-> seed, pos |-> 0])

NextRecord ==
    /\ log # <<>>
    /\ Len(log) < MaxHistory
    /\ Record(rng)

NextHistory == FirstRecord \/ NextRecord

SpecHistory == InitModule /\ [][NextHistory]_vars

---------------------------------------------------------------------------
(* The wager of a request: req.body.betAmount as JSON delivers it, and      *)
(* parseFloat.  A string is a sequence of characters; a number n / d is    *)
(* [kind |-> "num", neg, num |-> n, den |-> d] with d a power of 10.        *)

Digits == <<"0", "1", "2", "3", "4", "5", "6", "7", "8", "9">>
IsDigit(c) == \E k \in 1..Len(Digits) : Digits[k] = c
DigitValue(c) == (CHOOSE k \in 1..Len(Digits) : Digits[k] = c) - 1
IsWhiteSpace(c) == c = " "

NaN == [kind |-> "NaN"]
Number(neg, n, d) == [kind |-> "num", neg |-> neg, num |-> n, den |-> d]
InfinityLiteral == <<"I", "n", "f", "i", "n", "i", "t", "y">>

StartsWith(str, prefix) ==
    Len(str) >= Len(prefix) /\ SubSeq(str, 1, Len(prefix)) = prefix

\* the number of leading characters of str, from position i on, that c accepts
RECURSIVE RunLength(_, _, _)
RunLength(str, i, digit) ==
    IF i <= Len(str) /\ (IF digit THEN IsDigit(str[i]) ELSE IsWhiteSpace(str[i]))
    THEN 1 + RunLength(str, i + 1, digit) ELSE 0

\* the value of the digits str[i .. i + n - 1]
RECURSIVE DigitsValue(_, _, _)
DigitsValue(str, i, n) ==
    IF n = 0 THEN 0 ELSE DigitsValue(str, i, n - 1) * 10 + DigitValue(str[i + n - 1])

RECURSIVE Pow10(_)
Pow10(n) == IF n = 0 THEN 1 ELSE 10 * Pow10(n - 1)

\* parseFloat of a string: leading white space, a sign, then Infinity or
\* digits, a fraction and an exponent; what follows is ignored.  used is the
\* number of characters read.
parseFloatString(str) ==
    LET ws == RunLength(str, 1, FALSE)
        signed == ws < Len(str) /\ str[ws + 1] \in {"-", "+"}
        neg == signed /\ str[ws + 1] = "-"
        b == ws + (IF signed THEN 1 ELSE 0) + 1       \* first character of the body
        ni == RunLength(str, b, TRUE)
        dot == b + ni <= Len(str) /\ str[b + ni] = "."
        nf == IF dot THEN RunLength(str, b + ni + 1, TRUE) ELSE 0
        m == b + ni + (IF dot THEN 1 + nf ELSE 0)     \* first character after the mantissa
        hasE == m <= Len(str) /\ str[m] \in {"e", "E"}
        esigned == hasE /\ m + 1 <= Len(str) /\ str[m + 1] \in {"-", "+"}
        eb == m + 1 + (IF esigned THEN 1 ELSE 0)
        ne == IF hasE THEN RunLength(str, eb, TRUE) ELSE 0
        exp == IF ne > 0 THEN DigitsValue(str, eb, ne) ELSE 0
        eneg == esigned /\ str[m + 1] = "-"
        mant == DigitsValue(str, b, ni) * Pow10(nf) + DigitsValue(str, b + ni + 1, nf)
    IN  IF StartsWith(SubSeq(str, b, Len(str)), InfinityLiteral)
        THEN [value |-> [kind |-> "inf", neg |-> neg],
              used |-> b - 1 + Len(InfinityLiteral)]
        ELSE IF ni + nf = 0 THEN [value |-> NaN, used |-> 0]
        ELSE [value |-> IF ne > 0 /\ ~eneg
                        THEN Number(neg, mant * Pow10(exp), Pow10(nf))
                        ELSE Number(neg, mant, Pow10(nf) * Pow10(exp)),
              used |-> IF ne > 0 THEN eb + ne - 1 ELSE m - 1]

\* parseFloat(betAmount): the argument is converted to a string first
parseFloat(raw) ==
    IF raw.type = "number" THEN raw.value
    ELSE IF raw.type = "string" THEN parseFloatString(raw.chars).value
    ELSE NaN

\* !betAmount: undefined, null, 0 and the empty string are falsy
IsFalsy(raw) ==
    \/ raw.type \in {"undefined", "null"}
    \/ raw.type = "number" /\ raw.value.num = 0
    \/ raw.type = "string" /\ raw.chars = <<>>

MAX_BET == 1000000

\* lines 733-757: "ok", or the message of the AppError thrown
validateBet(raw) ==
    LET bet == parseFloat(raw)
    IN  IF IsFalsy(raw) THEN "Bet amount is required"
        ELSE IF bet.kind \in {"NaN", "inf"} THEN "Invalid bet amount format"
        ELSE IF bet.neg \/ bet.num = 0 THEN "Bet amount must be greater than 0"
        ELSE IF bet.num < bet.den THEN "Minimum bet amount is 1"
        ELSE IF bet.num > MAX_BET * bet.den THEN "Maximum bet amount exceeded"
        ELSE "ok"

\* a parsed bet in money units
MoneyOf(bet) == (bet.num * 100 * CentUnits) \div bet.den

---------------------------------------------------------------------------
(* Concurrent requests: playGame is an async handler on one event loop.     *)
(* A request runs from one await to the next without interruption; at an   *)
(* await any other request may be resumed.  reqs holds the requests in      *)
(* order of arrival, each with the await it is suspended at; running is     *)
(* the request whose call of generateReelResult is on the stack, or 0.      *)

MaxRequests == 2

\* a generateReelResult that awaits once its base grid is back
SpinAwaitsAfterBase == {"base"}

\* the awaits inside generateReelResult and what it calls: there are none
SpinAwaits == {}

\* the await that follows the one a request is resumed from
AwaitAfter(pc, winAmount) ==
    CASE pc = "startSession" -> "findById"
      [] pc = "save" -> IF winAmount > 0 THEN "saveWinnings" ELSE "create"
      [] pc = "saveWinnings" -> "create"
      [] pc = "create" -> "history"
      [] pc = "history" -> "commit"
      [] pc = "commit" -> "endSession"
      [] pc = "abortTransaction" -> "endSession"
      [] pc = "endSession" -> "done"

\* the first request to arrive draws from all of ConcSeeds, which holds the
\* streams that use up the synthesizer's budgets; the later ones from
\* QuickSeeds, a loss and a stream whose outcome depends on the tracker
QuickSeeds == {LossSeed, ThresholdSeed}
ConcSeeds == {<<0>>, <<1500>>} \cup QuickSeeds
\* a bet of 1.00
ConcBets == {100 * CentUnits}

\* lines 719-759: the body is validated, then await mongoose.startSession()
Arrive ==
    /\ running = 0
    /\ Len(reqs) < MaxRequests
    /\ \E betAmount \in ConcBets,
          seed \in (IF reqs = <<>> THEN ConcSeeds ELSE QuickSeeds) :
          reqs' = Append(reqs, [pc |-> "startSession", betAmount |-> betAmount,
                                seed |-> seed, spun |-> FALSE, order |-> 0,
                                winAmount |-> 0, frame |-> <<>>])
    /\ UNCHANGED <<db, varianceState, winProbability, rng, spin, synth, snapshot, running, log>>

\* a request is resumed from an await outside the spin and runs to the next
Resume ==
    /\ running = 0
    /\ \E i \in 1..Len(reqs) :
          /\ reqs[i].pc \in {"startSession", "save", "saveWinnings", "create", "history",
                             "commit", "abortTransaction", "endSession"}
          /\ reqs' = [reqs EXCEPT ![i].pc = AwaitAfter(reqs[i].pc, reqs[i].winAmount)]
    /\ UNCHANGED <<db, varianceState, winProbability, rng, spin, synth, snapshot, running, log>>

\* lines 764-788: the user is back; a request that fails a check aborts, the
\* others call generateReelResult(bet)
EnterSpin ==
    /\ running = 0
    /\ \E i \in 1..Len(reqs) :
          IF reqs[i].pc = "findById"
          THEN \E accepted \in BOOLEAN :
                  IF accepted
                  THEN /\ StartSpin(reqs[i].betAmount, [pat |-> reqs[i].seed, pos |-> 0])
                       /\ reqs' = [reqs EXCEPT ![i].pc = "spin"]
                       /\ running' = i
                  ELSE /\ reqs' = [reqs EXCEPT ![i].pc = "abortTransaction"]
                       /\ UNCHANGED <<db, spin, synth, rng, running>>
          ELSE /\ reqs[i].pc = "spin"
               /\ reqs[i].frame # <<>>
               /\ spin' = reqs[i].frame[1].spin
               /\ synth' = reqs[i].frame[1].synth
               /\ rng' = reqs[i].frame[1].rng
               /\ reqs' = [reqs EXCEPT ![i].frame = <<>>]
               /\ running' = i
    /\ UNCHANGED <<db, varianceState, winProbability, snapshot, log>>

\* lines 788-807: generateReelResult returns, the balance is computed, then
\* await user.save(); or the spin is suspended at one of its awaits
LeaveSpin ==
    /\ running # 0
    /\ IF spin.pc = "ret"
       THEN reqs' = [reqs EXCEPT ![running].pc = "save",
                                 ![running].spun = TRUE,
                                 ![running].order = Len(log),
                                 ![running].winAmount = Max(0, spin.ret[1].winAmount)]
       ELSE /\ spin.pc \in SpinAwaits
            /\ synth.pc = "ret"
            /\ reqs' = [reqs EXCEPT ![running].frame =
                                        <<[spin |-> spin, synth |-> synth, rng |-> rng]>>]
    /\ running' = 0
    /\ spin' = IdleSpin
    /\ synth' = IdleSynth
    /\ rng' = [pat |-> <<0>>, pos |-> 0]
    /\ UNCHANGED <<db, varianceState, winProbability, snapshot, log>>

\* the steps of the spin on the stack
RunSpin == running # 0 /\ SpinStep

NextConc == Arrive \/ Resume \/ EnterSpin \/ RunSpin \/ LeaveSpin

SpecConc == InitModule /\ [][NextConc]_vars

---------------------------------------------------------------------------
(* Requests with any body: playGame from its first line.  A request whose   *)
(* wager fails a check of lines 733-757 ends there with an error.           *)

Str(chars) == [type |-> "string", chars |-> chars]
Num(neg, n, d) == [type |-> "number", value |-> Number(neg, n, d)]

\* undefined, null, 0, 1, -5, 0.5, 2000000, "", "abc", "1.10", "5a", "-1",
\* "Infinity", "0.99", "1e7", " 5"
RawWagers ==
    {[type |-> "undefined"], [type |-> "null"],
     Num(FALSE, 0, 1), Num(FALSE, 1, 1), Num(TRUE, 5, 1), Num(FALSE, 5, 10),
     Num(FALSE, 2 * MAX_BET, 1),
     Str(<<>>), Str(<<"a", "b", "c">>), Str(<<"1", ".", "1", "0">>), Str(<<"5", "a">>),
     Str(<<"-", "1">>), Str(InfinityLiteral), Str(<<"0", ".", "9", "9">>),
     Str(<<"1", "e", "7">>), Str(<<" ", "5">>)}

\* draws of a losing spin
PlaySeeds == {LossSeed}

\* lines 719-759: the wager is validated; then await mongoose.startSession()
Submit ==
    /\ running = 0
    /\ Len(reqs) < MaxRequests
    /\ \E raw \in RawWagers, seed \in PlaySeeds :
          reqs' = Append(reqs,
                         IF validateBet(raw) = "ok"
                         THEN [pc |-> "startSession",
                               betAmount |-> MoneyOf(parseFloat(raw)),
                               seed |-> seed, spun |-> FALSE, order |-> 0,
                               winAmount |-> 0, frame |-> <<>>,
                               raw |-> raw, error |-> "ok"]
                         ELSE [pc |-> "rejected", betAmount |-> 0,
                               seed |-> <<>>, spun |-> FALSE, order |-> 0,
                               winAmount |-> 0, frame |-> <<>>,
                               raw |-> raw, error |-> validateBet(raw)])
    /\ UNCHANGED <<db, varianceState, winProbability, rng, spin, synth, snapshot, running, log>>

NextPlay == Submit \/ Resume \/ EnterSpin \/ RunSpin \/ LeaveSpin

SpecPlay == InitModule /\ [][NextPlay]_vars

---------------------------------------------------------------------------
(* playGame with its database: requests one after another, each from its   *)
(* first line to the end of its finally block.  A request in reqs holds     *)
(* the locals of its activation, the state of its mongoose session, the     *)
(* writes made under its transaction, and what it saw and left behind.      *)
(* The server may be restarted between two requests: the module is loaded   *)
(* again, the database stays.                                               *)

MaxGames == 2
MaxFaults == 1

validGameIds == {"sweet-bonanza", "gates-of-olympus"}

Wager(n) == [type |-> "number", value |-> Number(FALSE, n, 1)]

\* req.user.id, req.body.gameId ("" for undefined) and req.body.betAmount:
\* users 1 (active, 3.00) and 2 (pending, 1.50) within their balance, user 2
\* above it, user 3 (suspended), user 4 (no document), an unknown game and
\* a wager of 0
GameProfiles ==
    {[userId |-> 1, gameId |-> "", raw |-> Wager(1)],
     [userId |-> 1, gameId |-> "gates-of-olympus", raw |-> Wager(2)],
     [userId |-> 2, gameId |-> "sweet-bonanza", raw |-> Wager(1)],
     [userId |-> 2, gameId |-> "", raw |-> Wager(2)],
     [userId |-> 3, gameId |-> "", raw |-> Wager(1)],
     [userId |-> 4, gameId |-> "", raw |-> Wager(1)],
     [userId |-> 1, gameId |-> "poker", raw |-> Wager(1)],
     [userId |-> 1, gameId |-> "", raw |-> Wager(0)]}

\* a losing spin; a small win with a winning cascade
GameSeeds == {LossSeed, CascadeSeed}

NoSession == [inTransaction |-> FALSE, started |-> 0, commits |-> 0, aborts |-> 0,
              ended |-> FALSE]
NoWrites == [balance |-> <<>>, totalWinnings |-> <<>>, transactions |-> <<>>,
             history |-> <<>>]

NewGame(profile, seed) ==
    [pc |-> "startSession", userId |-> profile.userId, gameId |-> profile.gameId,
     betAmount |-> 0, seed |-> seed, error |-> "", responded |-> FALSE,
     session |-> NoSession, writes |-> NoWrites,
     userBalance |-> <<>>, winAmount |-> 0, finalBalance |-> 0, totalWinnings |-> 0,
     spun |-> FALSE, vsBefore |-> <<>>, vsAfter |-> <<>>, result |-> <<>>,
     stored |-> <<>>]

Finished(r) == r.pc \in {"done", "rejected"}
NoneInFlight == \A i \in 1..Len(reqs) : Finished(reqs[i])
InFlight == CHOOSE i \in 1..Len(reqs) : ~Finished(reqs[i])
Faults == Cardinality({i \in 1..Len(reqs) : reqs[i].error = "An error occurred while playing the game"})

\* lines 719-759: the game identifier and the wager are validated; then
\* await mongoose.startSession()
Play ==
    /\ running = 0
    /\ NoneInFlight
    /\ Len(reqs) < MaxGames
    /\ \E profile \in GameProfiles, seed \in GameSeeds :
          reqs' = Append(reqs,
              IF profile.gameId # "" /\ profile.gameId \notin validGameIds
              THEN [NewGame(profile, <<>>) EXCEPT !.pc = "rejected",
                                                  !.error = "Invalid game identifier"]
              ELSE IF validateBet(profile.raw) # "ok"
              THEN [NewGame(profile, <<>>) EXCEPT !.pc = "rejected",
                                                  !.error = validateBet(profile.raw)]
              ELSE [NewGame(profile, seed) EXCEPT
                       !.betAmount = MoneyOf(parseFloat(profile.raw))])
    /\ UNCHANGED <<varianceState, winProbability, rng, spin, synth, snapshot, running, log, db>>

\* lines 759-764: the session is there; session.startTransaction(); then
\* await User.findById(userId)
BeginTransaction ==
    /\ running = 0
    /\ ~NoneInFlight
    /\ reqs[InFlight].pc = "startSession"
    /\ reqs' = [reqs EXCEPT ![InFlight].pc = "findById",
                            ![InFlight].session.inTransaction = TRUE,
                            ![InFlight].session.started = 1]
    /\ UNCHANGED <<varianceState, winProbability, rng, spin, synth, snapshot, running, log, db>>

\* a stream that skips a draw for every user but the first
SpinStreamByUser(r) == [pat |-> r.seed, pos |-> r.userId - 1]

\* the stream generateReelResult draws from: Math.random(), the same for
\* every caller
SpinStream(r) == [pat |-> r.seed, pos |-> 0]

\* lines 764-788: the user is back.  No document, an account that is not
\* active or pending, and a balance below the bet each await
\* session.abortTransaction() and throw; otherwise generateReelResult(bet)
FindUser ==
    /\ running = 0
    /\ ~NoneInFlight
    /\ reqs[InFlight].pc = "findById"
    /\ LET i == InFlight
           r == reqs[i]
           Abort(message) ==
               /\ reqs' = [reqs EXCEPT ![i].pc = "abortTransaction", ![i].error = message]
               /\ UNCHANGED <<spin, synth, rng, running>>
       IN  IF r.userId \notin DOMAIN db.users THEN Abort("User not found")
           ELSE IF db.users[r.userId].status \notin {"active", "pending"}
           THEN Abort("Account is not active")
           ELSE IF db.users[r.userId].balance < r.betAmount
           THEN /\ reqs' = [reqs EXCEPT ![i].pc = "abortTransaction",
                                        ![i].error = "Insufficient balance",
                                        ![i].userBalance = <<db.users[r.userId].balance>>]
                /\ UNCHANGED <<spin, synth, rng, running>>
           ELSE /\ StartSpin(r.betAmount, SpinStream(r))
                /\ reqs' = [reqs EXCEPT ![i].pc = "spin",
                                        ![i].userBalance = <<db.users[r.userId].balance>>,
                                        ![i].totalWinnings = db.users[r.userId].totalWinnings,
                                        ![i].vsBefore = <<varianceState>>]
                /\ running' = i
    /\ UNCHANGED <<varianceState, winProbability, snapshot, log, db>>

\* a balance that adds the win without deducting the bet
newBalanceWithoutBet(userBalance, actualLoss, actualWin) == userBalance + actualWin

\* line 805: userBalance - actualLoss + actualWin
newBalance(userBalance, actualLoss, actualWin) == userBalance - actualLoss + actualWin

\* lines 788-807: generateReelResult has returned; the new balance is put on
\* the user document; then await user.save()
FinishSpin ==
    /\ running # 0
    /\ spin.pc = "ret"
    /\ LET r == reqs[running]
           actualWin == Max(0, spin.ret[1].winAmount)
       IN  reqs' = [reqs EXCEPT
                       ![running].pc = "save",
                       ![running].spun = TRUE,
                       ![running].winAmount = actualWin,
                       ![running].finalBalance =
                           Max(0, newBalance(r.userBalance[1], r.betAmount, actualWin)),
                       ![running].result = <<spin.ret[1]>>,
                       ![running].vsAfter = <<varianceState>>]
    /\ running' = 0
    /\ spin' = IdleSpin
    /\ synth' = IdleSynth
    /\ rng' = [pat |-> <<0>>, pos |-> 0]
    /\ UNCHANGED <<varianceState, winProbability, snapshot, log, db>>

\* a catch block that aborts whatever the session says
CatchAbortsAlways(session) == TRUE

\* line 911: if (session.inTransaction())
CatchAborts(session) == session.inTransaction

\* the catch block, entered with the session as the try block left it:
\* await session.abortTransaction() when a transaction is open, and the
\* finally block's await session.endSession() otherwise
Caught(r, message) ==
    [r EXCEPT !.pc = IF CatchAborts(r.session) THEN "catch" ELSE "endSession",
              !.error = message]

\* lines 818-825, then the await at line 851
CheckFinalBalance(r) ==
    IF r.finalBalance < 0
    THEN [r EXCEPT !.pc = "abortTransaction", !.error = "Invalid balance calculation"]
    ELSE [r EXCEPT !.pc = "create"]

\* the database after the transaction of r is committed
Committed(r) ==
    [users |-> [db.users EXCEPT ![r.userId].balance = r.writes.balance[1],
                                ![r.userId].totalWinnings =
                                    IF r.writes.totalWinnings = <<>> THEN @
                                    ELSE r.writes.totalWinnings[1]],
     transactions |-> db.transactions \o r.writes.transactions,
     history |-> db.history \o r.writes.history]

\* the request after the await it is suspended at has succeeded
Proceeded(r) ==
    CASE r.pc = "save" ->
            \* lines 807-816
            LET saved == [r EXCEPT !.writes.balance = <<r.finalBalance>>]
            IN  IF r.winAmount > 0
                THEN [saved EXCEPT !.pc = "saveWinnings",
                                   !.totalWinnings = @ + r.winAmount]
                ELSE CheckFinalBalance(saved)
      [] r.pc = "saveWinnings" ->
            CheckFinalBalance([r EXCEPT !.writes.totalWinnings = <<r.totalWinnings>>])
      [] r.pc = "create" ->
            \* lines 851-888
            [r EXCEPT !.pc = "history",
                      !.writes.transactions =
                          <<[user |-> r.userId, betAmount |-> r.betAmount,
                             winAmount |-> r.winAmount,
                             balanceAfter |-> r.finalBalance]>>]
      [] r.pc = "history" ->
            \* lines 888-891
            [r EXCEPT !.pc = "commit",
                      !.writes.history =
                          <<[user |-> r.userId, previousBalance |-> r.userBalance[1],
                             newBalance |-> r.finalBalance]>>]
      [] r.pc = "commit" ->
            \* lines 891-908, then finally
            [r EXCEPT !.pc = "endSession",
                      !.session.inTransaction = FALSE,
                      !.session.commits = @ + 1,
                      !.stored = <<r.writes.balance[1]>>,
                      !.responded = TRUE]
      [] r.pc = "abortTransaction" ->
            \* the abort before a throw in the try block, then the catch block
            Caught([r EXCEPT !.session.inTransaction = FALSE,
                             !.session.aborts = @ + 1,
                             !.writes = NoWrites],
                   r.error)
      [] r.pc = "catch" ->
            \* lines 912-930, then finally
            [r EXCEPT !.pc = "endSession",
                      !.session.inTransaction = FALSE,
                      !.session.aborts = @ + 1,
                      !.writes = NoWrites]
      [] r.pc = "endSession" ->
            \* line 932
            [r EXCEPT !.pc = "done", !.session.ended = TRUE]

Proceed ==
    /\ running = 0
    /\ ~NoneInFlight
    /\ reqs[InFlight].pc \in {"save", "saveWinnings", "create", "history", "commit",
                              "abortTransaction", "catch", "endSession"}
    /\ db' = IF reqs[InFlight].pc = "commit" THEN Committed(reqs[InFlight]) ELSE db
    /\ reqs' = [reqs EXCEPT ![InFlight] = Proceeded(reqs[InFlight])]
    /\ UNCHANGED <<varianceState, winProbability, rng, spin, synth, snapshot, running, log>>

\* an await of the try block fails: user.save(), Transaction.create() or
\* BalanceHistory.create() rejects, which enters the catch block, or
\* Transaction.create() resolves without a document (lines 854-857)
Fail ==
    /\ running = 0
    /\ ~NoneInFlight
    /\ Faults < MaxFaults
    /\ reqs[InFlight].pc \in {"save", "saveWinnings", "create", "history"}
    /\ \E thrown \in BOOLEAN :
          /\ ~thrown => reqs[InFlight].pc = "create"
          /\ reqs' = [reqs EXCEPT ![InFlight] =
                        IF thrown
                        THEN Caught(@, "An error occurred while playing the game")
                        ELSE [@ EXCEPT !.pc = "abortTransaction",
                                       !.error = "Failed to create transaction record"]]
    /\ UNCHANGED <<varianceState, winProbability, rng, spin, synth, snapshot, running, log, db>>

\* the server is restarted between two requests: the module-level state is
\* initialized again (lines 18-52 and 122-129)
Restart ==
    /\ running = 0
    /\ NoneInFlight
    /\ Len(reqs) < MaxGames
    /\ varianceState # InitVarianceState
    /\ varianceState' = InitVarianceState
    /\ winProbability' = BaseWinProbability
    /\ log' = <<>>
    /\ UNCHANGED <<rng, spin, synth, snapshot, reqs, running, db>>

NextGame ==
    Play \/ BeginTransaction \/ FindUser \/ RunSpin \/ FinishSpin \/ Proceed \/ Fail
        \/ Restart

SpecGame == InitModule /\ [][NextGame]_vars

---------------------------------------------------------------------------
(* Properties of grid synthesis, under SpecSynth *)

InSynthesis == synth.pc \in {"losing", "trials"}
Returned == synth.pc = "ret"

\* C1: the grid returned for a target multiplier of 0 is scored as exactly
\* 0 at the wager: no symbol 8 or more times, fewer than 3 scatters.
C1_LossGridScoresZero ==
    (Returned /\ synth.targetMultiplier = 0)
        => LET reels == synth.ret[1].reels
           IN  /\ calculateWinFromReels(reels, synth.betAmount).winAmount = 0
               /\ \A s \in Symbols : CountOf(reels, {s}) < MinCluster
               /\ CountOf(reels, ScatterSymbols) < 3

IsCompleteGrid(reels) ==
    /\ DOMAIN reels = 1..Cols
    /\ \A c \in 1..Cols :
          /\ DOMAIN reels[c] = 1..Rows
          /\ \A r \in 1..Rows : reels[c][r] \in Symbols

\* C2: a call of generateReelsForTarget makes at most 300, 500 or 800 win
\* trials, or at most 50 loss attempts with at most 30 rejected draws per
\* cell; every step of its loops either returns or uses up one trial or
\* attempt of that budget, and what it returns holds a complete 6x5 grid of symbols of the symbol set.
C2_AlwaysReturnsGrid ==
    /\ [](/\ synth.attempts <= (IF synth.targetMultiplier < 10 * MultDen THEN 300
                                ELSE IF synth.targetMultiplier < 50 * MultDen THEN 500
                                ELSE 800)
          /\ synth.attempt <= 50
          /\ synth.rejections <= 30
          /\ Returned => /\ Len(synth.ret) = 1
                         /\ IsCompleteGrid(synth.ret[1].reels))
    /\ [][InSynthesis =>
            \/ Returned'
            \/ /\ InSynthesis'
               /\ synth'.attempt + synth'.attempts = synth.attempt + synth.attempts + 1]_vars

\* a jackpot target whose 800 trials were all used up, and a grid returned
C2_Witness ==
    /\ Returned
    /\ synth.targetMultiplier >= 50 * MultDen
    /\ synth.attempts = maxAttempts(synth.targetMultiplier)
    /\ IsCompleteGrid(synth.ret[1].reels)

---------------------------------------------------------------------------
(* Properties of a spin, under SpecSpin *)

SpinReturned == spin.pc = "ret"
SpinCompletes == spin.pc # "ret" /\ spin'.pc = "ret"

\* C3: the list of cascade sub-results of a spin has length 0, 1 or 2, in
\* the making and as returned; it grows one cascade at a time, so that a
\* second cascade is there only after a first.
C3_AtMostTwoCascades ==
    /\ [](/\ Len(spin.cascadeResults) <= 2
          /\ Len(spin.cascadeOutcomes) <= 2
          /\ SpinReturned => Len(spin.ret[1].cascades) \in {0, 1, 2})
    /\ [][\/ spin'.cascadeResults \in {spin.cascadeResults, <<>>}
          \/ /\ Len(spin'.cascadeResults) = Len(spin.cascadeResults) + 1
             /\ SubSeq(spin'.cascadeResults, 1, Len(spin.cascadeResults))
                    = spin.cascadeResults]_vars

\* a spin that returned two cascades
C3_Witness == SpinReturned /\ Len(spin.ret[1].cascades) = 2

IsCents(x) == x >= 0 /\ x % CentUnits = 0

\* C4: the winAmount a spin returns is >= 0 and a whole number of cents,
\* and so are its baseWin, its cascadeWins and each cascade's winAmount.
C4_WholeCents ==
    SpinReturned =>
        /\ IsCents(spin.ret[1].winAmount)
        /\ IsCents(spin.ret[1].baseWin)
        /\ IsCents(spin.ret[1].cascadeWins)
        /\ \A i \in 1..Len(spin.ret[1].cascades) : IsCents(spin.ret[1].cascades[i].winAmount)

\* a returned spin one of whose cascade grids pays a fraction of a cent
\* before the floor (0.825 on a bet of 1.10)
C4_Witness ==
    /\ SpinReturned
    /\ spin.ret[1].winAmount > 0
    /\ \E i \in 1..Len(spin.ret[1].cascades) :
          totalWin(spin.ret[1].cascades[i].reels, spin.betAmount) % CentUnits # 0

\* C5: a spin records exactly one outcome, its base outcome, when it
\* completes after its cascades; no other step of a spin touches the
\* tracker, so the number of records equals the number of spins completed.
C5_OneRecordPerSpin ==
    /\ [](/\ varianceState.totalSpins = Len(log)
          /\ Len(varianceState.recentOutcomes) = Len(log)
          /\ Len(varianceState.recentMultipliers) = Len(log))
    /\ [][IF SpinCompletes
          THEN /\ synth.pc = "ret"
               /\ varianceState' =
                     updateVarianceState(varianceState, winProbability,
                                         spin.outcome[1].targetMultiplier > 0,
                                         spin.outcome[1].targetMultiplier)
          ELSE varianceState' = varianceState]_vars

\* two spins completed, one of them with two cascades
C5_Witness ==
    /\ SpinReturned
    /\ Len(log) >= 2
    /\ \E i \in 1..Len(log) : log[i].cascades = 2

---------------------------------------------------------------------------
(* Properties of concurrent requests, under SpecConc *)

\* the requests whose call of generateReelResult has returned
Spun == {i \in 1..Len(reqs) : reqs[i].spun \/ (running = i /\ spin.pc = "ret")}
Orders(S) == {o \in [1..Cardinality(S) -> S] : \A a, b \in DOMAIN o : o[a] = o[b] => a = b}

\* the tracker after the spins of the requests of `order`, one after another
RECURSIVE Sequential(_, _)
Sequential(order, vs) ==
    IF order = <<>> THEN vs
    ELSE LET outcome == determineWinOutcome(FALSE, vs, winProbability,
                                            [pat |-> reqs[Head(order)].seed, pos |-> 0])
         IN  Sequential(Tail(order),
                        updateVarianceState(vs, winProbability,
                                            outcome.targetMultiplier > 0,
                                            outcome.targetMultiplier))

\* C6: while a spin is on the stack no other request takes a step, and the
\* tracker (window, streak counters, spin counter) after the spins that
\* have completed is the one some sequential order of these spins produces.
C6_SpinsSerialized ==
    /\ [](\E o \in Orders(Spun) : varianceState = Sequential(o, InitVarianceState))
    /\ [][running # 0 =>
            /\ running' \in {running, 0}
            /\ Len(reqs') = Len(reqs)
            /\ \A j \in 1..Len(reqs) : j # running => reqs'[j] = reqs[j]]_vars

\* two requests in flight together whose spins completed in the order
\* opposite to their arrival, with different base outcomes
C6_Witness ==
    /\ Len(reqs) >= 2
    /\ reqs[1].spun /\ reqs[2].spun
    /\ reqs[2].order < reqs[1].order
    /\ log[1].wasWin # log[2].wasWin

---------------------------------------------------------------------------
(* Properties of the variance tracker, under SpecTracker *)

DryBonusApplies == varianceState.dryStreakCount >= maxDryStreak /\ dryStreakBonus(varianceState) > 0
ExpectedWinRate == (ProbDen - BaseWinProbability.loss) * WindowScale(varianceState)

\* C7: whenever the consecutive-loss count is at or beyond maxDryStreak, the
\* adjusted jackpot probability is at least the configured one (0.001).
C7_JackpotAtLeastBase ==
    varianceState.dryStreakCount >= maxDryStreak
        => FracLeq(BaseProbability("jackpot"), Adjusted.jackpot)

\* C8: without the dry-streak bonus, a recent win rate above the expected
\* one gives an adjusted loss probability >= the configured one, and a
\* recent win rate below the expected one gives one <= the configured one.
C8_NudgeDirection ==
    ~DryBonusApplies =>
        /\ recentWinRate(varianceState) > ExpectedWinRate
               => FracLeq(BaseProbability("loss"), Adjusted.loss)
        /\ recentWinRate(varianceState) < ExpectedWinRate
               => FracLeq(Adjusted.loss, BaseProbability("loss"))

\* C9: a read of the adjusted probabilities changes neither varianceState
\* nor RTP_CONFIG.winProbability, and a read that follows another with no
\* record in between returns the same distribution.
C9_ReadOnly ==
    [][ReadProbabilities =>
          /\ varianceState' = varianceState
          /\ winProbability' = winProbability
          /\ snapshot.probs # <<>> => snapshot'.probs = snapshot.probs]_vars

\* two reads in a row of a tracker that has records and adjusts the weights
C9_Witness ==
    /\ snapshot.reads >= 2
    /\ Len(varianceState.recentOutcomes) > 0
    /\ snapshot.probs[1].loss # BaseProbability("loss")

RECURSIVE FracSum(_, _)
FracSum(p, keys) ==
    IF keys = <<>> THEN Frac(0, 1)
    ELSE LET rest == FracSum(p, Tail(keys))
         IN  IF rest.num = 0 THEN p[Head(keys)] ELSE FracAdd(p[Head(keys)], rest)

\* C10: the adjusted distribution has exactly the five categories, each
\* probability is strictly between 0 and 1, and they sum to 1.
C10_Distribution ==
    /\ DOMAIN Adjusted = {Categories[i] : i \in 1..Len(Categories)}
    /\ \A k \in DOMAIN Adjusted :
           /\ Adjusted[k].den > 0
           /\ 0 < Adjusted[k].num
           /\ Adjusted[k].num < Adjusted[k].den
    /\ FracSum(Adjusted, Categories).num = FracSum(Adjusted, Categories).den

\* a tracker in which the bonus branch has changed three weights and the
\* normalization divides by a total other than 1
C10_Witness ==
    /\ DryBonusApplies
    /\ SumSeq(varianceState.recentOutcomes) > 0
    /\ Adjusted.loss.den # ProbDen * WindowScale(varianceState)

\* C11: whenever the dry-streak bonus branch is taken, the adjusted loss
\* probability is below the configured one, the adjusted largeWin and
\* jackpot probabilities are above theirs, and the bonus applied is positive
\* and no larger than the full bonus of 0.15.
C11_BonusLowersLoss ==
    DryBonusApplies =>
        /\ FracLess(Adjusted.loss, BaseProbability("loss"))
        /\ FracLess(BaseProbability("largeWin"), Adjusted.largeWin)
        /\ FracLess(BaseProbability("jackpot"), Adjusted.jackpot)
        /\ dryStreakBonus(varianceState) > 0
        /\ dryStreakBonus(varianceState)
               <= ((15 * ProbDen) \div 100) * WindowScale(varianceState)

\* C12: the grid returned for a target multiplier T of the medium class
\* (2 <= T < 10) pays within 35% of T times the wager.
C12_MediumWithinTolerance ==
    (/\ Returned
     /\ synth.targetMultiplier >= 2 * MultDen
     /\ synth.targetMultiplier < 10 * MultDen)
        => WithinTolerance(Difference(synth.ret[1].winAmount, synth.betAmount,
                                      synth.targetMultiplier),
                           synth.betAmount, synth.targetMultiplier, 7)

\* C13: every result returned for a target multiplier above 0 has a
\* winAmount above 0.
C13_WinTargetPays ==
    (Returned /\ synth.targetMultiplier > 0) => synth.ret[1].winAmount > 0

---------------------------------------------------------------------------
(* Properties of the wager validation, under SpecPlay *)

\* a string that is a numeric literal from its first character to its last
IsNumericString(chars) ==
    LET p == parseFloatString(chars)
    IN  /\ p.value.kind # "NaN"
        /\ p.used + RunLength(chars, p.used + 1, FALSE) = Len(chars)

\* a wager that is missing, not numeric, not finite, <= 0, below 1 or
\* above 1,000,000
WagerIsInvalid(raw) ==
    \/ raw.type \in {"undefined", "null"}
    \/ raw.type = "string" /\ ~IsNumericString(raw.chars)
    \/ LET bet == parseFloat(raw)
       IN  \/ bet.kind \in {"NaN", "inf"}
           \/ bet.neg
           \/ bet.num < bet.den
           \/ bet.num > 1000000 * bet.den

\* C14: a request with an invalid wager ends with an error before anything
\* else happens: it never opens a session, never spins and never reaches a
\* save, so it consumes no draw and changes neither tracker nor records.
C14_InvalidWagerRejected ==
    \A i \in 1..Len(reqs) :
        WagerIsInvalid(reqs[i].raw) =>
            /\ reqs[i].pc = "rejected"
            /\ reqs[i].error # "ok"
            /\ ~reqs[i].spun
            /\ reqs[i].winAmount = 0

---------------------------------------------------------------------------
(* Properties of determineWinOutcome, under SpecTracker *)

\* draws on both sides of every boundary of the configured distribution,
\* and one draw in every twentieth of [0, 1)
DrawSamples ==
    {r \in 0..(RandomDen - 1) : r % 100 = 0}
        \cup {1299, 1300, 1301, 1799, 1800, 1801, 1959, 1960, 1961, 1997, 1998, 1999}

\* a stream whose next draws are r
StreamOf(r) == [pat |-> <<r, r>>, pos |-> 1]

\* the probability mass of the first n categories
PrefixMass(p, n) == FracSum(p, SubSeq(Categories, 1, n))

\* the category a cumulative walk selects: the first of the first four
\* categories whose prefix mass exceeds r, jackpot when there is none
ReferenceCategory(p, r) ==
    LET hit == {i \in 1..(Len(Categories) - 1) :
                    FracLess(Frac(r, RandomDen), PrefixMass(p, i))}
    IN  IF hit = {} THEN Categories[Len(Categories)]
        ELSE Categories[CHOOSE i \in hit : \A j \in hit : i <= j]

\* C15: for every draw and every reachable adjusted distribution,
\* determineWinOutcome selects the category of the reference cumulative walk.
C15_CumulativeWalk ==
    \A r \in DrawSamples :
        determineWinOutcome(FALSE, varianceState, winProbability, StreamOf(r)).category
            = ReferenceCategory(Adjusted, r)

\* a draw that equals a prefix mass exactly, after a read: the walk moves on
\* to the next category
C15_Witness ==
    /\ snapshot.reads >= 1
    /\ \E r \in DrawSamples, i \in 1..(Len(Categories) - 1) :
           /\ PrefixMass(Adjusted, i).num * RandomDen = r * PrefixMass(Adjusted, i).den
           /\ determineWinOutcome(FALSE, varianceState, winProbability, StreamOf(r)).category
                  = Categories[i + 1]

---------------------------------------------------------------------------
(* Properties of the outcomes of determineWinOutcome, under SpecSpin *)

\* second draws at both ends and in the middle of a range
RangeSamples == {0, RandomDen \div 2, RandomDen - 1}

\* the outcome o of a call with argument isCascade has multiplier 0 exactly
\* when it is a loss, and a multiplier in its category's range otherwise
OutcomeInRange(o, isCascade) ==
    /\ o.targetMultiplier = 0 <=> o.category = "loss"
    /\ o.category # "loss" =>
           LET range == winRanges[o.category]
           IN  IF isCascade
               THEN /\ 2 * o.targetMultiplier >= 3 * range.min
                    /\ 2 * o.targetMultiplier <= 3 * range.max
               ELSE /\ o.targetMultiplier >= range.min
                    /\ o.targetMultiplier <= range.max

\* C16: every outcome of determineWinOutcome, those a spin has drawn for its
\* base grid and its cascades and those of every sampled pair of draws in
\* the current tracker state, has target multiplier 0 iff its category is
\* loss, and otherwise a multiplier within [min, max] of its category, or
\* within [1.5 min, 1.5 max] for a cascade.
C16_MultiplierInRange ==
    /\ \A k \in 1..Len(spin.outcome) : OutcomeInRange(spin.outcome[k], FALSE)
    /\ \A k \in 1..Len(spin.cascadeOutcomes) : OutcomeInRange(spin.cascadeOutcomes[k], TRUE)
    /\ \A r \in DrawSamples, m \in RangeSamples, isCascade \in BOOLEAN :
           OutcomeInRange(determineWinOutcome(isCascade, varianceState, winProbability,
                                              [pat |-> <<r, m>>, pos |-> 1]),
                          isCascade)

\* a spin has returned with a winning base outcome, a losing cascade outcome
\* and a winning cascade outcome at 1.5 times the minimum of its category
C16_Witness ==
    /\ spin.pc = "ret"
    /\ spin.outcome[1].category # "loss"
    /\ \E k \in 1..Len(spin.cascadeOutcomes) : spin.cascadeOutcomes[k].category = "loss"
    /\ \E k \in 1..Len(spin.cascadeOutcomes) :
           /\ spin.cascadeOutcomes[k].category # "loss"
           /\ 2 * spin.cascadeOutcomes[k].targetMultiplier
                  = 3 * winRanges[spin.cascadeOutcomes[k].category].min

---------------------------------------------------------------------------
(* Properties of calculateWinFromReels, under SpecSynth *)

\* the grid-wide count of every symbol
SymbolCounts(reels) == [s \in Symbols |-> CountOf(reels, {s})]

\* the paytable bucket of a count of at least 8: 8-9, 10-11, 12+
Bucket(n) == IF n <= 9 THEN 1 ELSE IF n <= 11 THEN 2 ELSE 3

\* the scatter tiers: the combined count needed, and the multiplier in hundredths
ScatterTiers == {<<3, 50>>, <<4, 300>>, <<5, 500>>, <<6, 10000>>}

\* the sum of the bucket multipliers of the symbols that count 8 or more
RECURSIVE ClusterMultipliers(_, _)
ClusterMultipliers(counts, keys) ==
    IF keys = <<>> THEN 0
    ELSE (IF counts[Head(keys)] >= 8
          THEN paytable[Head(keys)][Bucket(counts[Head(keys)])] ELSE 0)
         + ClusterMultipliers(counts, Tail(keys))

\* the multiplier of the highest scatter tier that n scatter symbols reach
HighestTier(n) ==
    LET reached == {t \in ScatterTiers : n >= t[1]}
    IN  IF reached = {} THEN 0
        ELSE (CHOOSE t \in reached : \A u \in reached : u[1] <= t[1])[2]

\* the payout as a function of the counts and the wager
ReferencePayout(counts, wager) ==
    LET multiplier == ClusterMultipliers(counts, symbolKeys)
                          + HighestTier(counts["star"] + counts["gem"])
    IN  ((wager * multiplier) \div (100 * CentUnits)) * CentUnits

ExpectedWinningCells(reels) ==
    {Position(i) : i \in {j \in CellIndices :
                              CountOf(reels, {SymbolAt(reels, j)}) >= 8}}
        \cup (IF CountOf(reels, ScatterSymbols) >= 3
              THEN {Position(i) : i \in {j \in CellIndices :
                                             SymbolAt(reels, j) \in ScatterSymbols}}
              ELSE {})

\* C18: the winning cells of every grid the synthesizer returns are exactly
\* the cells of the clusters and of the paid scatters, each listed once.
C18_WinningCellsOnce ==
    Returned =>
        LET cells == calculateWinFromReels(synth.ret[1].reels, synth.betAmount).winningPositions
        IN  /\ {cells[k] : k \in 1..Len(cells)} = ExpectedWinningCells(synth.ret[1].reels)
            /\ \A k, l \in 1..Len(cells) : cells[k] = cells[l] => k = l

---------------------------------------------------------------------------
(* Properties of updateVarianceState, under SpecHistory *)

\* the last n records of the history
LastRecords(n) == SubSeq(log, Len(log) - n + 1, Len(log))

\* C19: the two windows have the same length, at most varianceWindow, and
\* hold the most recent min(n, 100) recorded pairs in arrival order.
C19_SlidingWindow ==
    LET n == Min(Len(log), 100)
        recent == LastRecords(n)
    IN  /\ Len(varianceState.recentOutcomes) = n
        /\ Len(varianceState.recentMultipliers) = n
        /\ n <= varianceWindow
        /\ \A k \in 1..n :
               /\ varianceState.recentOutcomes[k] = (IF recent[k].wasWin THEN 1 ELSE 0)
               /\ varianceState.recentMultipliers[k] = recent[k].multiplier

\* pairs have been evicted, the last evicted pair differs from the oldest
\* pair kept, and the window holds wins and losses
C19_Witness ==
    /\ Len(log) > varianceWindow + 1
    /\ log[Len(log) - varianceWindow].wasWin # log[Len(log) - varianceWindow + 1].wasWin
    /\ SumSeq(varianceState.recentOutcomes) \in 1..(varianceWindow - 1)

\* the length of the run of identical outcomes that ends the history
TrailingRun ==
    LET n == Len(log)
        other == {k \in 1..n : log[k].wasWin # log[n].wasWin}
    IN  IF other = {} THEN n
        ELSE n - (CHOOSE k \in other : \A j \in other : j <= k)

\* C20: after every update exactly one of the two streak counters is
\* nonzero, and it is the length of the run of identical outcomes at the end
\* of the whole history: of losses for dryStreakCount, of wins for
\* winStreakCount.
C20_StreaksAreRuns ==
    Len(log) >= 1 =>
        IF log[Len(log)].wasWin
        THEN /\ varianceState.winStreakCount = TrailingRun
             /\ varianceState.winStreakCount > 0
             /\ varianceState.dryStreakCount = 0
        ELSE /\ varianceState.dryStreakCount = TrailingRun
             /\ varianceState.dryStreakCount > 0
             /\ varianceState.winStreakCount = 0

\* a run of losses that began after a win, is longer than the window and
\* has lasted through a periodic reset
C20_Witness ==
    /\ Len(log) > resetThreshold
    /\ varianceState.totalSpins < Len(log)
    /\ varianceState.dryStreakCount > varianceWindow
    /\ varianceState.dryStreakCount < Len(log)

\* C21: totalSpins stays in 0..499 and is the number of records modulo
\* resetThreshold; the record that brings the count to resetThreshold sets
\* totalSpins and varianceAccumulator to 0 and is pushed onto the window
\* and counted in the streaks like any other.
C21_PeriodicReset ==
    /\ varianceState.totalSpins \in 0..499
    /\ varianceState.totalSpins = Len(log) % resetThreshold
    /\ (Len(log) > 0 /\ Len(log) % resetThreshold = 0) =>
           /\ varianceState.varianceAccumulator = 0
           /\ Len(varianceState.recentOutcomes) = varianceWindow
           /\ varianceState.recentMultipliers[varianceWindow] = log[Len(log)].multiplier
           /\ varianceState.recentOutcomes[varianceWindow]
                  = (IF log[Len(log)].wasWin THEN 1 ELSE 0)
           /\ varianceState.dryStreakCount + varianceState.winStreakCount = TrailingRun

\* the record that brings the count to resetThreshold has just been made,
\* on a window of wins and losses
C21_Witness ==
    /\ Len(log) = resetThreshold
    /\ varianceState.totalSpins = 0
    /\ SumSeq(varianceState.recentOutcomes) \in 1..(varianceWindow - 1)

---------------------------------------------------------------------------
(* Properties of the amounts and the cascades of a spin, under SpecSpin *)

\* the sum of the winAmounts of a list of cascade sub-results
RECURSIVE SumWinAmounts(_)
SumWinAmounts(cascades) ==
    IF cascades = <<>> THEN 0
    ELSE Head(cascades).winAmount + SumWinAmounts(Tail(cascades))

---------------------------------------------------------------------------
(* Properties of the configuration, under SpecTracker *)

\* C23: the expected RTP of the configuration is within 0.01 of targetRTP
\* (0.96), and validateRTPConfig reports isValid.
C23_ConfigMeetsTarget ==
    /\ Abs(calculateExpectedRTP(winProbability) - (96 * MultDen) \div 100) <= MultDen \div 100
    /\ validateRTPConfig(winProbability).isValid

\* C26: every cascade of a spin follows a win: the outcome before it in the
\* chain, the base outcome for the first cascade and the first cascade's
\* outcome for the second, has a target multiplier > 0.
C26_CascadeOnlyAfterWin ==
    \A k \in 1..Len(spin.cascadeOutcomes) :
        IF k = 1 THEN spin.outcome[1].targetMultiplier > 0
        ELSE spin.cascadeOutcomes[k - 1].targetMultiplier > 0

\* C27: a spin whose base category is loss returns winAmount 0, baseWin 0,
\* cascadeWins 0, no winning positions and no cascade sub-results.
C27_LossPaysNothing ==
    (SpinReturned /\ spin.ret[1].rtpCategory = "loss") =>
        /\ spin.ret[1].winAmount = 0
        /\ spin.ret[1].baseWin = 0
        /\ spin.ret[1].cascadeWins = 0
        /\ spin.ret[1].winningPositions = <<>>
        /\ spin.ret[1].cascades = <<>>

\* a losing spin has returned a grid that the scorer would pay
C27_Witness ==
    /\ SpinReturned
    /\ spin.ret[1].rtpCategory = "loss"
    /\ calculateWinFromReels(spin.ret[1].reels, spin.betAmount).winAmount > 0

---------------------------------------------------------------------------
(* Properties of playGame and its database, under SpecGame *)

\* the requests whose call of generateReelResult has returned
Played == {i \in 1..Len(reqs) : reqs[i].spun}

\* C24: two requests with the same wager, issued in the same tracker state
\* and given the same draws, get the same spin result (category, grid,
\* payout, cascades) and leave the same tracker state, whoever the callers
\* are and whatever their balances and game identifiers.
C24_SameOddsForAll ==
    \A i, j \in Played :
        (/\ reqs[i].betAmount = reqs[j].betAmount
         /\ reqs[i].seed = reqs[j].seed
         /\ reqs[i].vsBefore = reqs[j].vsBefore)
            => /\ reqs[i].result = reqs[j].result
               /\ reqs[i].vsAfter = reqs[j].vsAfter

\* two users with different balances and game identifiers have played the
\* same wager on the same draws in the same tracker state, and won with a
\* cascade
C24_Witness ==
    \E i, j \in Played :
        /\ reqs[i].betAmount = reqs[j].betAmount
        /\ reqs[i].seed = reqs[j].seed
        /\ reqs[i].vsBefore = reqs[j].vsBefore
        /\ reqs[i].userId # reqs[j].userId
        /\ reqs[i].gameId # reqs[j].gameId
        /\ reqs[i].userBalance # reqs[j].userBalance
        /\ reqs[i].result[1].winAmount > 0
        /\ reqs[i].result[1].cascades # <<>>

C29_AbortRestoresTracker ==
    (/\ Len(reqs) > 0
     /\ reqs[Len(reqs)].pc = "done"
     /\ reqs[Len(reqs)].session.aborts = 1
     /\ reqs[Len(reqs)].spun)
        => /\ reqs[Len(reqs)].vsAfter = reqs[Len(reqs)].vsBefore
           /\ varianceState = reqs[Len(reqs)].vsBefore[1]

\* the request in flight has failed the balance check of line 780
Insufficient ==
    /\ ~NoneInFlight
    /\ reqs[InFlight].error = "Insufficient balance"

\* C30: a committed request stores the balance it read minus the bet plus
\* the spin's winAmount, which is >= 0.  A request that reads a balance
\* below its bet ends with 'Insufficient balance' without a spin, and from
\* the check to its end the database, the tracker and the spin log stay as
\* they are.
C30_BalanceAccounting ==
    /\ [](\A i \in 1..Len(reqs) :
            LET r == reqs[i]
            IN  /\ r.session.commits = 1 =>
                       /\ r.stored[1] = r.userBalance[1] - r.betAmount + r.result[1].winAmount
                       /\ r.stored[1] >= 0
                       /\ r.writes.history[1].newBalance = r.stored[1]
                /\ (r.userBalance # <<>> /\ r.userBalance[1] < r.betAmount) =>
                       /\ r.error = "Insufficient balance"
                       /\ ~r.spun
                       /\ r.session.commits = 0
                /\ r.error = "Insufficient balance" =>
                       r.userBalance # <<>> /\ r.userBalance[1] < r.betAmount)
    /\ [][(Insufficient \/ Insufficient') =>
              /\ db' = db
              /\ varianceState' = varianceState
              /\ log' = log
              /\ rng' = rng]_vars

\* a request has committed a win and a later one, by a user whose balance is
\* below the bet, is done
C30_Witness ==
    \E i, j \in 1..Len(reqs) :
        /\ reqs[i].session.commits = 1
        /\ reqs[i].result[1].winAmount > 0
        /\ db.users[reqs[i].userId].balance = reqs[i].stored[1]
        /\ i < j
        /\ reqs[j].pc = "done"
        /\ reqs[j].error = "Insufficient balance"

====
